---- MODULE Spec2Model ----
(***************************************************************************)
(* lensm: the command-line front end (main), the window registry (Windows) *)
(* and the presentation layer (UI) of src/main.go, together with the       *)
(* Matcher/Correlator that main calls (Parse), which is specified in       *)
(* spec.md section 4.                                                      *)
(*                                                                         *)
(* Strings are sequences of one-character strings, so that substring and   *)
(* prefix matching are computed and not assumed.  A pointer to a Match is  *)
(* Nil or Ref(i), the address of Output.Matches[i] (indices from 0, as in  *)
(* the Go code).                                                           *)
(***************************************************************************)
EXTENDS Integers, Sequences, FiniteSets, TLC

VARIABLES
    flags,          \* the command line: main.go 29-36
    disk,           \* the executable, its debug info, the sources and the font file
    pc,             \* position of the main goroutine in main()
    exit,           \* "running", or how the process ended
    re,             \* main's local re
    output,         \* main's local out
    exe,            \* main's local exe
    theme,          \* main's local theme
    parseCalls,     \* the paths Parse has been called with, in order
    parseExeCalls,  \* the paths ParseExe has been called with, in order
    examined,       \* how many symbols the last Parse tested against the filter
    ui,             \* the UI struct: main.go 124-139
    pointer,        \* presses on the open-in-new button not yet seen by its Layout
    active,         \* Windows.active, the WaitGroup counter
    wins,           \* the window goroutines started by Windows.Open
    waitPc          \* the goroutine of main.go 74-77

vars == <<flags, disk, pc, exit, re, output, exe, theme, parseCalls,
          parseExeCalls, examined, ui, pointer, active, wins, waitPc>>

-----------------------------------------------------------------------------
(* Bounds                                                                  *)

MaxSyms == 3        \* symbols in a symbol table
MaxInstrs == 6      \* instructions of one symbol
MaxLine == 5        \* lines of a source file, and resolved lines, of the window inputs
MaxContext == 2     \* the -context values tried
MaxDetached == 1    \* windows opened by open-in-new in one run

(* Program constants                                                       *)

ResetScroll == 100000       \* main.go 299-300

Null == [null |-> TRUE]
Nil == <<>>
Ref(i) == <<i>>
Unknown == <<"unknown">>
Absent == [present |-> FALSE]
Unreadable == [ok |-> FALSE, n |-> 0]
File(n) == [ok |-> TRUE, n |-> n]

Min(a, b) == IF a < b THEN a ELSE b
Max(a, b) == IF a > b THEN a ELSE b

RECURSIVE SeqsUpTo(_, _)
SeqsUpTo(S, n) ==
    IF n = 0 THEN {<<>>}
    ELSE LET shorter == SeqsUpTo(S, n - 1)
         IN  shorter \cup {Append(s, x) : s \in {t \in shorter : Len(t) = n - 1}, x \in S}

-----------------------------------------------------------------------------
(* regexp: the fragment used here is a literal, optionally anchored with   *)
(* "^"; an unclosed "(" is a syntax error.                                 *)

IsPrefix(p, s) == Len(p) <= Len(s) /\ SubSeq(s, 1, Len(p)) = p

Contains(s, p) == \E i \in 0..(Len(s) - Len(p)) : SubSeq(s, i + 1, i + Len(p)) = p

RegexpCompile(p) ==
    IF \E i \in 1..Len(p) : p[i] = "(" THEN [err |-> TRUE]
    ELSE IF Len(p) > 0 /\ p[1] = "^" THEN [err |-> FALSE, anchored |-> TRUE, lit |-> Tail(p)]
    ELSE [err |-> FALSE, anchored |-> FALSE, lit |-> p]

MatchString(r, name) ==
    IF r.anchored THEN IsPrefix(r.lit, name) ELSE Contains(name, r.lit)

-----------------------------------------------------------------------------
(* The Matcher/Correlator and its leaves: spec.md 4.1-4.5.                 *)
(*                                                                         *)
(* A symbol is [name, start, code]; code[i] is the location the debug info *)
(* gives for the symbol's i-th instruction: Unknown or <<file, line>>.     *)
(* Every instruction is one address unit long.  The text of line n of a    *)
(* file is represented by n.                                               *)

Decode(sym) ==
    [i \in 1..Len(sym.code) |-> [addr |-> sym.start + (i - 1), loc |-> sym.code[i]]]

RECURSIVE Group(_, _, _)
Group(instrs, i, blocks) ==
    IF i > Len(instrs) THEN blocks
    ELSE LET n == Len(blocks)
         IN  IF n > 0 /\ blocks[n].loc = instrs[i].loc
             THEN Group(instrs, i + 1,
                        [blocks EXCEPT ![n].instrs = Append(@, instrs[i])])
             ELSE Group(instrs, i + 1,
                        Append(blocks, [loc |-> instrs[i].loc, instrs |-> <<instrs[i]>>]))

LineOf(loc) == IF loc = Unknown THEN 0 ELSE loc[2]

RECURSIVE GroupLine(_, _, _)
GroupLine(instrs, i, blocks) ==
    IF i > Len(instrs) THEN blocks
    ELSE LET n == Len(blocks)
         IN  IF n > 0 /\ LineOf(blocks[n].loc) = LineOf(instrs[i].loc)
             THEN GroupLine(instrs, i + 1,
                            [blocks EXCEPT ![n].instrs = Append(@, instrs[i])])
             ELSE GroupLine(instrs, i + 1,
                            Append(blocks, [loc |-> instrs[i].loc, instrs |-> <<instrs[i]>>]))

\* a grouping that compares the line and forgets the file
GroupBlocksByLine(instrs) == GroupLine(instrs, 1, <<>>)

GroupBlocks(instrs) == Group(instrs, 1, <<>>)

Lines(files, file, centerLine, context) ==
    IF file \notin DOMAIN files \/ ~files[file].ok THEN Absent
    ELSE LET first == Max(1, centerLine - context)
             last == Min(files[file].n, centerLine + context)
         IN  [present |-> TRUE, file |-> file, first |-> first,
              lines |-> [i \in 1..(last - first + 1) |-> first + (i - 1)]]

AttachWindow(files, block, context) ==
    [loc |-> block.loc, instrs |-> block.instrs,
     window |-> IF block.loc = Unknown THEN Absent
                ELSE Lines(files, block.loc[1], block.loc[2], context)]

BuildMatch(files, sym, context) ==
    LET blocks == GroupBlocks(Decode(sym))
    IN  [Name |-> sym.name,
         Blocks |-> [b \in 1..Len(blocks) |-> AttachWindow(files, blocks[b], context)]]

RECURSIVE Scan(_, _, _, _, _)
Scan(syms, filter, maxMatches, i, acc) ==
    IF i > Len(syms) \/ Len(acc.accepted) >= maxMatches THEN acc
    ELSE Scan(syms, filter, maxMatches, i + 1,
              [accepted |-> IF MatchString(filter, syms[i].name)
                            THEN Append(acc.accepted, i) ELSE acc.accepted,
               examined |-> acc.examined + 1])

BuildOutput(executable, filter, context, maxMatches) ==
    LET scan == Scan(executable.syms, filter, maxMatches, 1,
                     [accepted |-> <<>>, examined |-> 0])
    IN  [Matches |-> [j \in 1..Len(scan.accepted) |->
                        BuildMatch(executable.files, executable.syms[scan.accepted[j]], context)],
         examined |-> scan.examined]

(* disk.exes[path] is the file at path: bad when its container cannot be   *)
(* parsed, badDebug when its debug info cannot, badSyms when its symbols   *)
(* cannot be listed.  A path with no file cannot be loaded.                *)

Load(path) ==
    IF path \in DOMAIN disk.exes THEN disk.exes[path] ELSE [bad |-> TRUE]

Parse(opts) ==
    LET e == Load(opts.Exe)
    IN  IF e.bad \/ e.badDebug THEN [err |-> TRUE]
        ELSE [err |-> FALSE,
              out |-> BuildOutput(e, opts.Filter, opts.Context, opts.MaxSymbols)]

ParseExe(path) ==
    LET e == Load(path)
    IN  IF e.bad \/ e.badSyms THEN [err |-> TRUE]
        ELSE [err |-> FALSE, exe |-> [Syms |-> e.syms]]

-----------------------------------------------------------------------------
(* main: main.go 28-81                                                     *)

Running == [code |-> -1, by |-> "running"]
UsageExit == [code |-> 1, by |-> "usage"]
PanicExit == [code |-> 2, by |-> "panic"]
WaitExit == [code |-> 0, by |-> "wait"]

uiVars == <<ui, pointer, active, wins, waitPc>>
inputVars == <<flags, disk>>

Die(how) == pc' = "exited" /\ exit' = how

\* a usage check that asks for both to be missing
CheckArgsBoth ==
    /\ pc = "start" /\ exit = Running
    /\ IF flags.exename = "" /\ flags.filter = <<>>
       THEN Die(UsageExit)
       ELSE pc' = "compile" /\ exit' = exit
    /\ UNCHANGED <<inputVars, re, output, exe, theme, parseCalls, parseExeCalls,
                   examined, uiVars>>

\* main.go 35-42
CheckArgs ==
    /\ pc = "start" /\ exit = Running
    /\ IF flags.exename = "" \/ flags.filter = <<>>
       THEN Die(UsageExit)
       ELSE pc' = "compile" /\ exit' = exit
    /\ UNCHANGED <<inputVars, re, output, exe, theme, parseCalls, parseExeCalls,
                   examined, uiVars>>

\* main.go 44-47
CompileFilter ==
    /\ pc = "compile" /\ exit = Running
    /\ LET r == RegexpCompile(flags.filter)
       IN  IF r.err
           THEN Die(PanicExit) /\ re' = re
           ELSE pc' = "parse" /\ exit' = exit /\ re' = r
    /\ UNCHANGED <<inputVars, output, exe, theme, parseCalls, parseExeCalls,
                   examined, uiVars>>

ParseOptionsSwapped ==
    [Exe |-> flags.exename, Filter |-> re,
     Context |-> flags.maxMatches, MaxSymbols |-> flags.context]

\* main.go 49-54
ParseOptions ==
    [Exe |-> flags.exename, Filter |-> re,
     Context |-> flags.context, MaxSymbols |-> flags.maxMatches]

\* main.go 49-57
CallParse ==
    /\ pc = "parse" /\ exit = Running
    /\ LET opts == ParseOptions
           r == Parse(opts)
       IN  /\ parseCalls' = Append(parseCalls, opts.Exe)
           /\ IF r.err
              THEN Die(PanicExit) /\ UNCHANGED <<output, examined>>
              ELSE /\ pc' = "parseExe" /\ exit' = exit
                   /\ output' = [Matches |-> r.out.Matches]
                   /\ examined' = r.out.examined
    /\ UNCHANGED <<inputVars, re, exe, theme, parseExeCalls, uiVars>>

NextFront == CheckArgs \/ CompileFilter \/ CallParse

\* ParseExe given another path than Parse
ParseExeArgOther == "b.out"

\* main.go 59
ParseExeArg == flags.exename

\* a call that drops ParseExe's error
CallParseExeUnchecked ==
    /\ pc = "parseExe" /\ exit = Running
    /\ LET r == ParseExe(ParseExeArg)
       IN  /\ parseExeCalls' = Append(parseExeCalls, ParseExeArg)
           /\ pc' = "font" /\ exit' = exit
           /\ exe' = IF r.err THEN [Syms |-> <<>>] ELSE r.exe
    /\ UNCHANGED <<inputVars, re, output, theme, parseCalls, examined, uiVars>>

\* main.go 59-62
CallParseExe ==
    /\ pc = "parseExe" /\ exit = Running
    /\ LET r == ParseExe(ParseExeArg)
       IN  /\ parseExeCalls' = Append(parseExeCalls, ParseExeArg)
           /\ IF r.err
              THEN Die(PanicExit) /\ exe' = exe
              ELSE pc' = "font" /\ exit' = exit /\ exe' = r.exe
    /\ UNCHANGED <<inputVars, re, output, theme, parseCalls, examined, uiVars>>

\* main.go 102-118: the collection, or a panic
fontCollection(path) ==
    IF path = "" THEN [err |-> FALSE, faces |-> <<"gofont">>]
    ELSE IF path \notin DOMAIN disk.fonts THEN [err |-> TRUE]
    ELSE IF disk.fonts[path] # "ttf" THEN [err |-> TRUE]
    ELSE [err |-> FALSE, faces |-> <<"gofont", path>>]

\* main.go 64-67
LoadFont ==
    /\ pc = "font" /\ exit = Running
    /\ LET c == fontCollection(flags.font)
       IN  IF c.err
           THEN Die(PanicExit) /\ theme' = theme
           ELSE pc' = "newUI" /\ exit' = exit /\ theme' = [faces |-> c.faces]
    /\ UNCHANGED <<inputVars, re, output, exe, parseCalls, parseExeCalls, examined, uiVars>>

ZeroScroll == [asm |-> 0, src |-> 0]

\* main.go 141-148; the list's Selected is whatever VerticalSelectList leaves it
NewUI(selected) ==
    [Theme |-> theme, Output |-> Null, Exe |-> Null, Symbols |-> <<>>,
     Selected |-> Nil, MatchesSelected |-> selected, MatchUI |-> ZeroScroll,
     clicks |-> 0, shown |-> FALSE]

\* main.go 69
MakeUI ==
    /\ pc = "newUI" /\ exit = Running
    /\ \E selected \in {-1, 0} : ui' = NewUI(selected)
    /\ pc' = "setOutput"
    /\ UNCHANGED <<inputVars, exit, re, output, exe, theme, parseCalls, parseExeCalls,
                   examined, pointer, active, wins, waitPc>>

\* main.go 70
SetOutput ==
    /\ pc = "setOutput" /\ exit = Running
    /\ ui' = [ui EXCEPT !.Output = output]
    /\ pc' = "setExe"
    /\ UNCHANGED <<inputVars, exit, re, output, exe, theme, parseCalls, parseExeCalls,
                   examined, pointer, active, wins, waitPc>>

\* main.go 71, 168-171
SetExe ==
    /\ pc = "setExe" /\ exit = Running
    /\ ui' = [ui EXCEPT !.Exe = exe, !.Symbols = exe.Syms]
    /\ pc' = "open"
    /\ UNCHANGED <<inputVars, exit, re, output, exe, theme, parseCalls, parseExeCalls,
                   examined, pointer, active, wins, waitPc>>

-----------------------------------------------------------------------------
(* Windows: main.go 83-100, 120-122.  A window is the goroutine Open       *)
(* starts: spawned, then open (its run function loops over the window's    *)
(* events), then returned (run has returned after a DestroyEvent), then    *)
(* done (the deferred Done has run).  stateRef says where the              *)
(* *MatchUIState of a detached window points: at its own copy (state) or   *)
(* at ui.MatchUI.                                                          *)

MainTitle == <<"l", "e", "n", "s", "m">>

MainWindow ==
    [title |-> MainTitle, run |-> "UI.Run", st |-> "spawned", err |-> FALSE,
     Match |-> Nil, stateRef |-> "ui", state |-> ZeroScroll]

\* an Open that counts the first window only
OpenUncounted(new) ==
    /\ active' = IF wins = <<>> THEN active + Len(new) ELSE active
    /\ wins' = wins \o new

\* main.go 87-88 and the go statement of 89: what Open does in the caller
Open(new) ==
    /\ active' = active + Len(new)
    /\ wins' = wins \o new

\* main.go 72
OpenMain ==
    /\ pc = "open" /\ exit = Running
    /\ Open(<<MainWindow>>)
    /\ pc' = "goWait"
    /\ UNCHANGED <<inputVars, exit, re, output, exe, theme, parseCalls, parseExeCalls,
                   examined, ui, pointer, waitPc>>

\* main.go 74, then 80: app.Main never returns
GoWait ==
    /\ pc = "goWait" /\ exit = Running
    /\ waitPc' = "waiting"
    /\ pc' = "appMain"
    /\ UNCHANGED <<inputVars, exit, re, output, exe, theme, parseCalls, parseExeCalls,
                   examined, ui, pointer, active, wins>>

\* a waiting goroutine that does not wait for the counter
WaitReturnsAtOnce ==
    /\ waitPc = "waiting" /\ exit = Running
    /\ waitPc' = "woken"
    /\ UNCHANGED <<inputVars, pc, exit, re, output, exe, theme, parseCalls, parseExeCalls,
                   examined, ui, pointer, active, wins>>

\* main.go 75, 120-122: Wait returns when the counter is zero
WaitReturns ==
    /\ waitPc = "waiting" /\ exit = Running
    /\ active = 0
    /\ waitPc' = "woken"
    /\ UNCHANGED <<inputVars, pc, exit, re, output, exe, theme, parseCalls, parseExeCalls,
                   examined, ui, pointer, active, wins>>

\* main.go 76
ExitAfterWait ==
    /\ waitPc = "woken" /\ exit = Running
    /\ exit' = WaitExit
    /\ waitPc' = "exited"
    /\ UNCHANGED <<inputVars, pc, re, output, exe, theme, parseCalls, parseExeCalls,
                   examined, ui, pointer, active, wins>>

\* main.go 92-96: NewWindow, and run starts to wait for events
WindowCreate(w) ==
    /\ exit = Running
    /\ wins[w].st = "spawned"
    /\ wins' = [wins EXCEPT ![w].st = "open"]
    /\ UNCHANGED <<inputVars, pc, exit, re, output, exe, theme, parseCalls, parseExeCalls,
                   examined, ui, pointer, active, waitPc>>

\* the goroutine once run has returned: its locals are gone
Returned(win, err) ==
    [title |-> win.title, run |-> win.run, st |-> "returned", err |-> err,
     Match |-> Nil, stateRef |-> win.stateRef, state |-> ZeroScroll]

\* main.go 161-162, 246-247, then 96-98: run returns e.Err, which is logged
Destroy(w, err) ==
    /\ exit = Running
    /\ wins[w].st = "open"
    /\ wins' = [wins EXCEPT ![w] = Returned(wins[w], err)]
    /\ UNCHANGED <<inputVars, pc, exit, re, output, exe, theme, parseCalls, parseExeCalls,
                   examined, ui, pointer, active, waitPc>>

\* main.go 90: the deferred Done
WindowDone(w) ==
    /\ exit = Running
    /\ wins[w].st = "returned"
    /\ wins' = [wins EXCEPT ![w].st = "done"]
    /\ active' = active - 1
    /\ UNCHANGED <<inputVars, pc, exit, re, output, exe, theme, parseCalls, parseExeCalls,
                   examined, ui, pointer, waitPc>>

-----------------------------------------------------------------------------
(* UI: main.go 173-311                                                     *)

\* the scroll offsets a pane takes: the top, and the offset resetScroll sets
ScrollVals == {0, ResetScroll}
ScrollStates == [asm : ScrollVals, src : ScrollVals]

\* main.go 298-301
resetScroll(u) == [u EXCEPT !.MatchUI = [asm |-> ResetScroll, src |-> ResetScroll]]

\* a bounds check that lets the index one past the end through
selectIndexOffByOne(u, target) ==
    IF target < 0 \/ target > Len(u.Output.Matches)
    THEN resetScroll([u EXCEPT !.Selected = Nil, !.MatchesSelected = -1])
    ELSE IF u.Selected = Ref(target)
         THEN [u EXCEPT !.MatchesSelected = target]
         ELSE resetScroll([u EXCEPT !.MatchesSelected = target, !.Selected = Ref(target)])

\* a selectIndex without the early return for the Match already selected
selectIndexAlwaysResets(u, target) ==
    IF target < 0 \/ target >= Len(u.Output.Matches)
    THEN resetScroll([u EXCEPT !.Selected = Nil, !.MatchesSelected = -1])
    ELSE resetScroll([u EXCEPT !.MatchesSelected = target, !.Selected = Ref(target)])

\* main.go 280-296
selectIndex(u, target) ==
    IF target < 0 \/ target >= Len(u.Output.Matches)
    THEN resetScroll([u EXCEPT !.Selected = Nil, !.MatchesSelected = -1])
    ELSE IF u.Selected = Ref(target)
         THEN [u EXCEPT !.MatchesSelected = target]
         ELSE resetScroll([u EXCEPT !.MatchesSelected = target, !.Selected = Ref(target)])

\* main.go 174-176
SelectFirst(u) ==
    IF u.Selected = Nil /\ Len(u.Output.Matches) > 0 THEN selectIndex(u, 0) ELSE u

\* the Match a pointer refers to
Deref(u, ptr) == u.Output.Matches[ptr[1] + 1]

\* a window whose state pointer is &ui.MatchUI
openInNewShared(u) ==
    [title |-> Deref(u, u.Selected).Name, run |-> "WidgetWindow", st |-> "spawned",
     err |-> FALSE, Match |-> u.Selected, stateRef |-> "ui", state |-> u.MatchUI]

\* main.go 254-269: the window Open is called for
openInNew(u) ==
    [title |-> Deref(u, u.Selected).Name, run |-> "WidgetWindow", st |-> "spawned",
     err |-> FALSE, Match |-> u.Selected, stateRef |-> "own", state |-> u.MatchUI]

Reverse(q) == [i \in 1..Len(q) |-> q[Len(q) + 1 - i]]

\* a list that reorders Output.Matches in place before showing it
layoutMatchesReordering(u, pick) ==
    selectIndex([u EXCEPT !.MatchesSelected = pick,
                          !.Output = [Matches |-> Reverse(@.Matches)]], pick)

\* main.go 271-278: the list handles the user's input (pick), then selectIndex
layoutMatches(u, pick) == selectIndex([u EXCEPT !.MatchesSelected = pick], pick)

\* the picks a user can make in one frame: none, or any entry; the list may also
\* lose its selection
Picks(u) == {u.MatchesSelected} \cup ((-1)..Len(u.Output.Matches))

\* a Layout that handles the open-in-new clicks after layoutMatches
LayoutClicksLast(pick, scroll) ==
    LET u1 == SelectFirst(ui)
        n == u1.clicks
        u2 == [u1 EXCEPT !.clicks = 0]
        u3 == layoutMatches(u2, pick)
    IN  IF n > 0 /\ u3.Selected = Nil
        THEN /\ Die(PanicExit)
             /\ UNCHANGED <<ui, pointer, active, wins>>
        ELSE /\ Open([i \in 1..n |-> openInNew(u3)])
             /\ IF u3.Selected = Nil
                THEN /\ ui' = [u3 EXCEPT !.shown = FALSE]
                     /\ pointer' = 0
                ELSE /\ ui' = [u3 EXCEPT !.MatchUI = scroll, !.clicks = pointer,
                                         !.shown = TRUE]
                     /\ pointer' = 0
             /\ UNCHANGED <<pc, exit>>

\* main.go 173-232, as run by UI.Run for a FrameEvent (main.go 156-159).
\* scroll is what the user's scrolling makes of the code pane's state.
Layout(pick, scroll) ==
    LET u1 == SelectFirst(ui)
        n == u1.clicks
        u2 == [u1 EXCEPT !.clicks = 0]
        u3 == layoutMatches(u2, pick)
    IN  IF n > 0 /\ u1.Selected = Nil
        THEN \* main.go 268: ui.Selected.Name with ui.Selected nil
             /\ Die(PanicExit)
             /\ UNCHANGED <<ui, pointer, active, wins>>
        ELSE /\ Open([i \in 1..n |-> openInNew(u1)])
             /\ IF u3.Selected = Nil
                THEN \* main.go 214-216: "no matches", no button
                     /\ ui' = [u3 EXCEPT !.shown = FALSE]
                     /\ pointer' = 0
                ELSE \* main.go 217-229: the code pane, then the button
                     /\ ui' = [u3 EXCEPT !.MatchUI = scroll, !.clicks = pointer,
                                         !.shown = TRUE]
                     /\ pointer' = 0
             /\ UNCHANGED <<pc, exit>>

FrameMain(w) ==
    /\ exit = Running
    /\ wins[w].st = "open" /\ wins[w].run = "UI.Run"
    /\ \E pick \in Picks(SelectFirst(ui)), scroll \in ScrollStates :
          Layout(pick, scroll)
    /\ UNCHANGED <<inputVars, re, output, exe, theme, parseCalls, parseExeCalls,
                   examined, waitPc>>

\* main.go 241-244: the detached window lays out its MatchUIStyle, which scrolls
\* the state its pointer refers to
FrameDetached(w) ==
    /\ exit = Running
    /\ wins[w].st = "open" /\ wins[w].run = "WidgetWindow"
    /\ \E scroll \in ScrollStates :
          IF wins[w].stateRef = "own"
          THEN wins' = [wins EXCEPT ![w].state = scroll] /\ ui' = ui
          ELSE ui' = [ui EXCEPT !.MatchUI = scroll] /\ wins' = wins
    /\ UNCHANGED <<inputVars, pc, exit, re, output, exe, theme, parseCalls, parseExeCalls,
                   examined, pointer, active, waitPc>>

Detached == {w \in 1..Len(wins) : wins[w].run = "WidgetWindow"}

\* the user presses the open-in-new button laid out by the last frame
PressOpenInNew ==
    /\ exit = Running
    /\ ui # Null /\ ui.shown
    /\ \E w \in 1..Len(wins) : wins[w].run = "UI.Run" /\ wins[w].st = "open"
    /\ Cardinality(Detached) + ui.clicks + pointer < MaxDetached
    /\ pointer' = pointer + 1
    /\ UNCHANGED <<inputVars, pc, exit, re, output, exe, theme, parseCalls, parseExeCalls,
                   examined, ui, active, wins, waitPc>>

Next ==
    \/ NextFront
    \/ CallParseExe \/ LoadFont \/ MakeUI \/ SetOutput \/ SetExe \/ OpenMain \/ GoWait
    \/ WaitReturns \/ ExitAfterWait
    \/ \E w \in 1..Len(wins) : WindowCreate(w)
    \/ \E w \in 1..Len(wins) : FrameMain(w)
    \/ \E w \in 1..Len(wins) : FrameDetached(w)
    \/ \E w \in 1..Len(wins), err \in BOOLEAN : Destroy(w, err)
    \/ \E w \in 1..Len(wins) : WindowDone(w)
    \/ PressOpenInNew

-----------------------------------------------------------------------------
(* Inputs                                                                  *)

ExePath == "a.out"
Names == {<<"m", "a">>, <<"m", "b">>, <<"h">>}
Patterns == {<<"m">>, <<"a">>, <<"h">>, <<"^", "m">>, <<"^", "a">>, <<"^", "b">>, <<"x">>}
LocKeys == {Unknown, <<"a.go", 10>>, <<"a.go", 11>>, <<"a.go", 12>>, <<"b.go", 10>>}
Fonts == [f \in {"mono.ttf", "garbage.ttf"} |-> IF f = "mono.ttf" THEN "ttf" ELSE "garbage"]
SourceFiles == [f \in {"a.go", "b.go"} |-> File(12)]

SymTab(names, codes) ==
    [i \in 1..Len(names) |-> [name |-> names[i], start |-> 16 * i, code |-> codes[i]]]

Executable(syms, files) ==
    [bad |-> FALSE, badDebug |-> FALSE, badSyms |-> FALSE, syms |-> syms, files |-> files]

Disk(e) == [exes |-> [p \in {ExePath} |-> e], fonts |-> Fonts]

Flags(filter, context, maxMatches) ==
    [exename |-> ExePath, filter |-> filter, context |-> context,
     maxMatches |-> maxMatches, font |-> ""]

\* symbol tables, patterns and caps: the symbols all have the same two-block body
MatcherInputs ==
    {[flags |-> Flags(p, 1, m),
      disk |-> Disk(Executable(SymTab(ns, [i \in 1..Len(ns) |-> <<Unknown, <<"a.go", 10>>>>]),
                               SourceFiles))] :
        ns \in SeqsUpTo(Names, MaxSyms), p \in Patterns, m \in (-1)..(MaxSyms + 1)}

\* instruction sequences of one symbol
BlockInputs ==
    {[flags |-> Flags(<<"m">>, 1, 1),
      disk |-> Disk(Executable(SymTab(<<<<"m">>>>, <<code>>), SourceFiles))] :
        code \in SeqsUpTo(LocKeys, MaxInstrs)}

\* resolved line, file length (or no readable file) and context size
WindowInputs ==
    {[flags |-> Flags(<<"m">>, c, 3),
      disk |-> Disk(Executable(SymTab(<<<<"m">>>>, <<<<Unknown, <<"a.go", line>>>>>>),
                               [f \in {"a.go"} |-> file]))] :
        line \in 1..MaxLine, file \in {File(n) : n \in 0..MaxLine} \cup {Unreadable},
        c \in (-1)..MaxContext}

InitMain ==
    /\ pc = "start" /\ exit = Running
    /\ re = Null /\ output = Null /\ exe = Null /\ theme = Null
    /\ parseCalls = <<>> /\ parseExeCalls = <<>> /\ examined = 0
    /\ ui = Null /\ pointer = 0 /\ active = 0 /\ wins = <<>> /\ waitPc = "none"

\* the symbol table of the program runs
RunSyms ==
    SymTab(<<<<"m", "a">>, <<"h">>, <<"m", "b">>>>,
           <<<<Unknown, <<"a.go", 10>>>>, <<>>, <<<<"b.go", 10>>>>>>)

\* command lines and executables with every fatal error, and good ones with every cap
RunInputs ==
    {[flags |-> [exename |-> x, filter |-> p, context |-> 1,
                 maxMatches |-> Len(RunSyms), font |-> f],
      disk |-> [exes |-> [q \in {ExePath} |->
                            [bad |-> e = "bad", badDebug |-> e = "badDebug",
                             badSyms |-> e = "badSyms", syms |-> RunSyms,
                             files |-> SourceFiles]],
                fonts |-> Fonts]] :
        x \in {"", ExePath}, p \in {<<>>, <<"m">>, <<"(">>},
        f \in {"", "mono.ttf", "missing.ttf", "garbage.ttf"},
        e \in {"ok", "bad", "badDebug", "badSyms"}}
    \cup
    {[flags |-> Flags(<<"m">>, 1, m), disk |-> Disk(Executable(RunSyms, SourceFiles))] :
        m \in (-1)..1}

Init ==
    /\ \E in \in RunInputs : flags = in.flags /\ disk = in.disk
    /\ InitMain

Spec == Init /\ [][Next]_vars

\* The Go scheduler runs every goroutine that can take a step: main goes on from
\* Open to the go statement (main.go 72-74), the waiting goroutine leaves Wait once
\* the counter is zero and then calls os.Exit (75-76), and a window's goroutine runs
\* its deferred Done once run has returned (90). What the user does, and when, is
\* under no such condition.
Fairness ==
    /\ WF_vars(GoWait)
    /\ WF_vars(WaitReturns)
    /\ WF_vars(ExitAfterWait)
    /\ WF_vars(\E w \in 1..Len(wins) : WindowDone(w))

SpecLive == Init /\ [][Next]_vars /\ Fairness

InitParse ==
    /\ \E in \in MatcherInputs \cup BlockInputs \cup WindowInputs :
          flags = in.flags /\ disk = in.disk
    /\ InitMain

SpecParse == InitParse /\ [][NextFront]_vars

-----------------------------------------------------------------------------
(* Properties of the Matcher as main calls it                              *)

TheSyms == disk.exes[ExePath].syms
TheFiles == disk.exes[ExePath].files
NameMatches(s) == MatchString(RegexpCompile(flags.filter), s.name)
Matching == SelectSeq(TheSyms, NameMatches)
\* the place in the symbol table of the j-th symbol whose name matches
MatchPos(j) ==
    CHOOSE i \in 1..Len(TheSyms) :
        NameMatches(TheSyms[i]) /\ Cardinality({h \in 1..i : NameMatches(TheSyms[h])}) = j

RECURSIVE Concat(_)
Concat(blocks) ==
    IF blocks = <<>> THEN <<>> ELSE Head(blocks).instrs \o Concat(Tail(blocks))

Counts(blocks) == [b \in 1..Len(blocks) |-> Len(blocks[b].instrs)]
Scenario == <<<<"a.go", 10>>, <<"a.go", 10>>, <<"a.go", 11>>, <<"a.go", 11>>,
              <<"a.go", 11>>, <<"a.go", 12>>>>

\* C2: Parse returns the first min(m, k) symbols whose name matches the filter, in
\* symbol-table order, where m is the -max-matches value and k the number of
\* matching symbols; none when m <= 0; and once m symbols are accepted no later
\* symbol is examined.
C2_FirstMatchesInOrder ==
    output # Null =>
        LET m == flags.maxMatches
            k == Len(Matching)
            n == IF m <= 0 THEN 0 ELSE Min(m, k)
        IN  /\ Len(output.Matches) = n
            /\ \A j \in 1..n :
                  /\ output.Matches[j].Name = Matching[j].name
                  /\ Concat(output.Matches[j].Blocks) = Decode(Matching[j])
            /\ (m >= 1 /\ k >= m) => examined = MatchPos(m)
            /\ (m >= 1 /\ k < m) => examined = Len(TheSyms)

\* a cap smaller than the number of matching symbols has cut the scan short, and a
\* non-matching symbol was skipped before an accepted one
C2_Witness ==
    /\ output # Null
    /\ flags.maxMatches = 2 /\ Len(Matching) = 3 /\ Len(output.Matches) = 2
    /\ examined < Len(TheSyms)

C2_WitnessSkip ==
    /\ output # Null /\ Len(output.Matches) = 2
    /\ ~NameMatches(TheSyms[1]) /\ output.Matches[1].Name = TheSyms[2].name

\* C4: the Blocks of a Match are the maximal runs of consecutive instructions with
\* the same location key: each Block is non-empty and of one key, adjacent Blocks
\* have different keys, the Blocks concatenated are the symbol's instructions in
\* ascending address order without gap, no instructions give no Blocks, and lines
\* [10,10,11,11,11,12] give Blocks of 2, 3 and 1 instructions.
C4_BlocksAreMaximalRuns ==
    output # Null =>
        \A j \in 1..Len(output.Matches) :
            LET B == output.Matches[j].Blocks
                sym == Matching[j]
                all == Concat(B)
            IN  /\ \A b \in 1..Len(B) :
                      /\ Len(B[b].instrs) >= 1
                      /\ \A i \in 1..Len(B[b].instrs) : B[b].instrs[i].loc = B[b].loc
                /\ \A b \in 1..(Len(B) - 1) : B[b].loc # B[b + 1].loc
                /\ all = Decode(sym)
                /\ \A i \in 1..(Len(all) - 1) : all[i + 1].addr = all[i].addr + 1
                /\ (sym.code = <<>>) => (B = <<>>)
                /\ (sym.code = Scenario) => (Counts(B) = <<2, 3, 1>>)

C4_Witness ==
    /\ output # Null /\ Len(output.Matches) = 1
    /\ TheSyms[1].code = Scenario
    /\ Counts(output.Matches[1].Blocks) = <<2, 3, 1>>

WindowOk(w, line, n, c) ==
    /\ w.present
    /\ Len(w.lines) >= 1
    /\ Len(w.lines) <= 2 * c + 1
    /\ \E i \in 1..Len(w.lines) : w.lines[i] = line
    /\ \A i \in 1..Len(w.lines) : w.lines[i] \in 1..n /\ w.lines[i] = w.first + (i - 1)

KnownBlocks ==
    {B \in UNION {{m.Blocks[b] : b \in 1..Len(m.Blocks)} :
                     m \in {output.Matches[j] : j \in 1..Len(output.Matches)}} :
        B.loc # Unknown}

C8_WitnessUnreadable ==
    /\ output # Null
    /\ \E B \in KnownBlocks : ~TheFiles[B.loc[1]].ok /\ ~B.window.present

-----------------------------------------------------------------------------
(* Properties of main and of the presentation layer                        *)

TheExe == disk.exes[ExePath]
MainOpen == \E w \in 1..Len(wins) : wins[w].run = "UI.Run" /\ wins[w].st = "open"
Live(ws, w) == ws[w].st \in {"spawned", "open"}

\* C1: with no executable path or an empty filter, main ends with the usage
\* error and status 1, and until then has compiled no filter, called neither Parse
\* nor ParseExe and opened no window.
C1_UsageErrorFirst ==
    (flags.exename = "" \/ flags.filter = <<>>) =>
        /\ pc \in {"start", "exited"}
        /\ pc = "exited" => (exit = UsageExit /\ exit.code = 1)
        /\ re = Null /\ parseCalls = <<>> /\ parseExeCalls = <<>>
        /\ ui = Null /\ wins = <<>> /\ active = 0

\* the executable is given and the filter is empty: the process has ended
C1_Witness ==
    /\ flags.exename = ExePath /\ flags.filter = <<>>
    /\ exit = UsageExit

\* C3: once ui.Output is set, every step leaves ui.Output as Parse returned it and
\* calls neither Parse nor ParseExe.
C3_OutputNeverChanges ==
    [][(ui # Null /\ ui.Output # Null) =>
          /\ ui'.Output = ui.Output /\ ui.Output = output /\ output' = output
          /\ parseCalls' = parseCalls /\ parseExeCalls' = parseExeCalls]_vars

\* a second match is selected, a detached window is open and the main one is closed
C3_Witness ==
    /\ ui # Null /\ ui.Selected = Ref(1)
    /\ \E w \in Detached : wins[w].st = "open"
    /\ \E w \in 1..Len(wins) : wins[w].run = "UI.Run" /\ wins[w].st = "done"

FatalInput ==
    \/ flags.exename = "" \/ flags.filter = <<>>
    \/ RegexpCompile(flags.filter).err
    \/ fontCollection(flags.font).err

\* C5: with a missing executable path, an empty filter, an invalid filter or a
\* font file that cannot be read or parsed, neither Parse nor ParseExe is called.
C5_InputErrorsBeforeAnalysis ==
    FatalInput => (parseCalls = <<>> /\ parseExeCalls = <<>>)

\* C5 without the font: the three errors main meets before line 49
C5_ExceptFont ==
    (flags.exename = "" \/ flags.filter = <<>> \/ RegexpCompile(flags.filter).err)
        => (parseCalls = <<>> /\ parseExeCalls = <<>>)

\* C6: when Parse or ParseExe fails the process panics with no UI, no window and
\* no waiting goroutine; and no window exists unless ui.Output and ui.Exe are set.
C6_ParseErrorHalts ==
    /\ (parseCalls # <<>> /\ (TheExe.bad \/ TheExe.badDebug)) =>
          (exit = PanicExit /\ pc = "exited" /\ output = Null)
    /\ (parseExeCalls # <<>> /\ (TheExe.bad \/ TheExe.badSyms)) =>
          (exit = PanicExit /\ pc = "exited" /\ exe = Null)
    /\ (TheExe.bad \/ TheExe.badDebug \/ TheExe.badSyms) =>
          (ui = Null /\ wins = <<>> /\ active = 0 /\ waitPc = "none")
    /\ wins # <<>> => (ui # Null /\ ui.Output # Null /\ ui.Exe # Null)

\* ParseExe has failed after Parse succeeded
C6_Witness ==
    /\ TheExe.badSyms /\ parseExeCalls # <<>> /\ output # Null
    /\ exit = PanicExit /\ wins = <<>>

\* C7: Parse and ParseExe are never called twice and are called with the same
\* path; when the UI is made or a window exists each has been called once, with the
\* path of the command line, and has returned its result.
C7_ParsedOnceBeforeUI ==
    /\ Len(parseCalls) <= 1 /\ Len(parseExeCalls) <= 1
    /\ parseExeCalls # <<>> =>
          (parseCalls # <<>> /\ parseExeCalls[1] = parseCalls[1] /\ output # Null)
    /\ (ui # Null \/ wins # <<>> \/ waitPc # "none") =>
          /\ parseCalls = <<flags.exename>> /\ parseExeCalls = <<flags.exename>>
          /\ output # Null /\ exe # Null

\* a frame of the main window has laid out the code pane
C7_Witness ==
    /\ ui # Null /\ ui.shown /\ MainOpen
    /\ Len(parseCalls) = 1 /\ Len(parseExeCalls) = 1

\* the scroll state a window's view reads and writes
ViewOf(ws, u, w) == IF ws[w].stateRef = "ui" THEN u.MatchUI ELSE ws[w].state

\* C9: a window made by openInNew has the Match selected when the click is handled,
\* that Match's name as title and the main view's scroll state of that moment;
\* while it lives its Match stays, no step of the main window changes its scroll
\* state, and no step that changes its scroll state changes ui.MatchUI, ui.Selected
\* or ui.Matches.Selected.
C9_DetachedViewIsACopy ==
    [][/\ \A w \in (Len(wins) + 1)..Len(wins') :
             wins'[w].run = "WidgetWindow" =>
                LET u == SelectFirst(ui)
                IN  /\ u.Selected # Nil
                    /\ wins'[w].Match = u.Selected
                    /\ wins'[w].title = Deref(u, u.Selected).Name
                    /\ ViewOf(wins', ui', w) = u.MatchUI
       /\ \A w \in 1..Len(wins) :
             (wins[w].run = "WidgetWindow" /\ Live(wins, w) /\ Live(wins', w)) =>
                /\ wins'[w].Match = wins[w].Match
                /\ wins'[w].title = wins[w].title
                /\ ui' # ui => ViewOf(wins', ui', w) = ViewOf(wins, ui, w)
                /\ ViewOf(wins', ui', w) # ViewOf(wins, ui, w) =>
                      /\ ui'.MatchUI = ui.MatchUI
                      /\ ui'.Selected = ui.Selected
                      /\ ui'.MatchesSelected = ui.MatchesSelected]_vars

\* a detached window shows another Match, at other scroll offsets, than the main one
C9_Witness ==
    \E w \in Detached :
        /\ wins[w].st = "open" /\ MainOpen
        /\ wins[w].Match = Ref(0) /\ ui.Selected = Ref(1)
        /\ wins[w].title = <<"m", "a">>
        /\ ViewOf(wins, ui, w) = [asm |-> 0, src |-> ResetScroll]
        /\ ui.MatchUI = [asm |-> ResetScroll, src |-> 0]

Consistent(u) ==
    \/ u.Selected = Nil /\ u.MatchesSelected = -1
    \/ /\ u.MatchesSelected \in 0..(Len(u.Output.Matches) - 1)
       /\ u.Selected = Ref(u.MatchesSelected)

\* C10: selectIndex, from any state and for any target, leaves either no selection
\* and list index -1 (so for every target outside 0..len-1) or the list index in
\* range and ui.Selected the Match at it; every frame of the main window ends in
\* such a state, and ui.Selected never refers outside Output.Matches.
C10_SelectionConsistent ==
    /\ [](ui # Null /\ ui.Output # Null =>
            LET len == Len(ui.Output.Matches)
            IN  /\ \A t \in (-2)..(len + 1) :
                      LET v == selectIndex(ui, t)
                      IN  /\ Consistent(v)
                          /\ t \in 0..(len - 1) => v.Selected = Ref(t)
                          /\ t \notin 0..(len - 1) => v.Selected = Nil
                /\ ui.Selected # Nil => ui.Selected[1] \in 0..(len - 1)
                /\ ui.shown => (Consistent(ui) /\ ui.Selected # Nil))
    /\ [][(pc' = pc /\ ui # Null /\ ui' # ui) => Consistent(ui')]_vars

\* the list has lost its selection in a frame over a non-empty Output
C10_Witness ==
    /\ ui # Null /\ ui.Output # Null /\ Len(ui.Output.Matches) = 2
    /\ ui.Selected = Nil /\ ui.MatchesSelected = -1 /\ ~ui.shown
    /\ ui.MatchUI = [asm |-> ResetScroll, src |-> ResetScroll]

BothReset == [asm |-> ResetScroll, src |-> ResetScroll]

\* C11: from any state, selectIndex of the in-range index already selected keeps
\* ui.Selected and both scroll offsets, and selectIndex of any other index, in range
\* or not, sets both offsets to 100000, so a changed selection comes with equal
\* offsets; the selectIndex of every frame keeps the offsets of a selection that
\* stays, and a frame that ends without selection ends with both offsets reset.
C11_ScrollResetOnChange ==
    /\ [](ui # Null /\ ui.Output # Null =>
            LET len == Len(ui.Output.Matches)
            IN  /\ \A t \in (-2)..(len + 1) :
                      LET v == selectIndex(ui, t)
                      IN  /\ (t \in 0..(len - 1) /\ ui.Selected = Ref(t)) =>
                                (v.Selected = ui.Selected /\ v.MatchUI = ui.MatchUI)
                          /\ ~(t \in 0..(len - 1) /\ ui.Selected = Ref(t)) =>
                                v.MatchUI = BothReset
                          /\ v.Selected # ui.Selected => v.MatchUI.asm = v.MatchUI.src
                /\ ui.shown =>
                      LET v == layoutMatches(SelectFirst(ui), ui.MatchesSelected)
                      IN  v.Selected = ui.Selected /\ v.MatchUI = ui.MatchUI)
    /\ [][(pc' = pc /\ ui # Null /\ ui' # ui /\ ui'.Selected = Nil)
             => ui'.MatchUI = BothReset]_vars

\* the second match stays selected over a frame and the user has scrolled one pane
C11_Witness ==
    /\ ui # Null /\ ui.shown /\ ui.Selected = Ref(1) /\ ui.MatchesSelected = 1
    /\ ui.MatchUI = [asm |-> 0, src |-> ResetScroll]

\* C12: once the UI exists, the first step of a frame yields a selection whenever
\* Output has a Match, queued open-in-new clicks are met only with a selection, no
\* window's frame ever panics and every detached window on screen has a Match; with
\* an empty Output nothing is ever selected and the button is never laid out or
\* clicked.
C12_ClickAlwaysHasSelection ==
    /\ exit = PanicExit => wins = <<>>
    /\ \A w \in Detached : Live(wins, w) => wins[w].Match # Nil
    /\ ui # Null /\ ui.Output # Null =>
          /\ Len(ui.Output.Matches) > 0 => SelectFirst(ui).Selected # Nil
          /\ ui.clicks + pointer > 0 => ui.Selected # Nil /\ SelectFirst(ui).Selected # Nil
          /\ Len(ui.Output.Matches) = 0 =>
                /\ ui.Selected = Nil /\ SelectFirst(ui).Selected = Nil
                /\ (MainOpen \/ Detached # {}) => ~ui.shown
                /\ ui.clicks = 0 /\ pointer = 0 /\ Detached = {}

\* a click was handled with the first match selected, and a later frame deselected
C12_Witness ==
    /\ exit = Running /\ ui # Null /\ ui.Selected = Nil /\ ~ui.shown
    /\ \E w \in Detached : wins[w].Match = Ref(0) /\ Live(wins, w)

\* frames run over an empty Output
C12_WitnessEmpty ==
    /\ exit = Running /\ MainOpen /\ ui.Output # Null /\ Len(ui.Output.Matches) = 0
    /\ ui.Selected = Nil /\ ui.MatchUI = BothReset

AllDone == wins # <<>> /\ \A w \in 1..Len(wins) : wins[w].st = "done"
AllClosed == wins # <<>> /\ \A w \in 1..Len(wins) : wins[w].st \in {"returned", "done"}
MainClosed == \E w \in 1..Len(wins) : wins[w].run = "UI.Run" /\ ~Live(wins, w)

\* C13: the process exits with status 0 only by the waiting goroutine and only when
\* every window opened has finished, with or without an error; once windows exist it
\* exits in no other way; while a detached window is open after the main window was
\* closed it goes on running; and once every window opened is closed, it exits.
C13_ExitsWhenAllClosed ==
    /\ [](exit.code = 0 => (exit = WaitExit /\ waitPc = "exited" /\ AllDone))
    /\ [](wins # <<>> /\ exit # Running => exit = WaitExit)
    /\ []((MainClosed /\ \E w \in Detached : Live(wins, w)) => exit = Running)
    /\ (AllClosed ~> exit = WaitExit)

\* exit 0 after the main window and a detached one were closed, one with an error
C13_Witness ==
    /\ exit = WaitExit /\ Detached # {}
    /\ \E w \in 1..Len(wins) : wins[w].err
    /\ \E w \in 1..Len(wins) : ~wins[w].err

\* the main window is gone, a detached window is open, the process runs
C13_WitnessMainClosed ==
    /\ exit = Running /\ waitPc = "waiting"
    /\ \E w \in 1..Len(wins) : wins[w].run = "UI.Run" /\ wins[w].st = "done"
    /\ \E w \in Detached : wins[w].st = "open"

NotDone == {w \in 1..Len(wins) : wins[w].st # "done"}

\* C14: the counter is the number of windows opened and not yet done; it is raised
\* only by main before the waiting goroutine is started, or by a frame of the main
\* window while that window is open and counted, never from zero once the waiting
\* goroutine exists; a window is counted in the step that opens it, with the process
\* still running; and Wait has returned only when every window opened is done.
C14_OpenCountedInTime ==
    /\ [](active = Cardinality(NotDone))
    /\ [](waitPc \in {"woken", "exited"} => AllDone)
    /\ [][active' > active =>
             \/ waitPc = "none" /\ pc = "open" /\ wins = <<>>
             \/ active > 0 /\ MainOpen /\ MainOpen' /\ pc = pc']_vars
    /\ [][(waitPc # "none" /\ active' > active) => active > 0]_vars
    /\ [][Len(wins') > Len(wins) =>
             /\ active' - active = Len(wins') - Len(wins)
             /\ exit = Running /\ exit' = Running
             /\ waitPc' = waitPc /\ waitPc \in {"none", "waiting"}]_vars

\* a click was handled while the waiting goroutine waits: the new window is counted
\* before its goroutine has created it
C14_Witness ==
    /\ exit = Running /\ waitPc = "waiting" /\ MainOpen /\ active = 2
    /\ \E w \in Detached : wins[w].st = "spawned"

====
